---- MODULE Spec2Model ----
(***************************************************************************)
(* tinyfs: a flat-namespace file store over one backing image              *)
(* (src/tinyfs.c).  The in-memory FileSystem (superblock, inode table,     *)
(* bitmap) and the image regions it is flushed to are separate variables;  *)
(* every handler of the source is one action.                              *)
(*                                                                         *)
(* Sizes are scaled: the source has 4096-byte blocks, 1024 blocks, 128     *)
(* inode slots and 10 blocks per file.  The model keeps every formula of   *)
(* the source over BLOCK_SIZE, TOTAL_BLOCKS, MAX_INODES and MAX_FILE_SIZE  *)
(* and gives them small values, chosen together so that the layout has     *)
(* the shape it has in the source (a superblock block, an inode table, a   *)
(* bitmap, then a data area inside the image).                             *)
(*                                                                         *)
(* Spec runs the handlers as whole calls.  SpecCrash runs fs_write_file    *)
(* one region write at a time and lets the process stop at any of them.    *)
(* SpecMisuse adds the calls made on a FileSystem that fs_init has not     *)
(* produced or fs_close_fs has freed.  SpecOmin is the create-only         *)
(* variant src/omin.c and SpecMini the in-memory variant src/minifs_2.c,   *)
(* both over the same variables.                                           *)
(***************************************************************************)
EXTENDS Integers, Sequences, FiniteSets, TLC

\* ------------------------------------------------------------ bounds
\* the number of blocks of the image; with the layout below the last three
\* are data blocks
NumBlocks == 137
\* how many bytes beyond MAX_FILE_SIZE the longest content handed to write has
ExtraLen == 1

\* ------------------------------------------------------------ constants
\* #define BLOCK_SIZE 4096, scaled
BLOCK_SIZE    == 2
TOTAL_BLOCKS  == NumBlocks
\* #define MAX_INODES 128, scaled
MAX_INODES    == 2
MAX_FILENAME  == 32
\* blocks per file: the 10 of #define MAX_FILE_SIZE (BLOCK_SIZE * 10), scaled
FILE_BLOCKS   == 2
MAX_FILE_SIZE == BLOCK_SIZE * FILE_BLOCKS
\* length of Inode.blocks[]
NBLK          == MAX_FILE_SIZE \div BLOCK_SIZE

\* sizeof(int), sizeof(time_t) and their alignment on the LP64 build
IntBytes  == 4
TimeBytes == 8

AlignUp(n, a) == ((n + a - 1) \div a) * a

\* sizeof(Inode): name, size, blocks[], created, modified, padded as the
\* compiler lays the struct out
SizeofInode ==
    LET afterName   == AlignUp(MAX_FILENAME, IntBytes)
        afterBlocks == afterName + IntBytes + IntBytes * NBLK
        afterTimes  == AlignUp(afterBlocks, TimeBytes) + 2 * TimeBytes
    IN  AlignUp(afterTimes, TimeBytes)

\* sizeof(fs->bitmap): one unsigned char per block
SizeofBitmap == TOTAL_BLOCKS

\* time(NULL): every operation of a run falls into the same second
Now == 1

\* ------------------------------------------------------------ inputs
\* File names handed to the operations: C strings of at most
\* MAX_FILENAME - 1 bytes, the empty string among them.
Names == {<<>>, <<97>>, <<98>>, <<97, 98>>}

\* The content written with length L: L non-zero bytes, different at every
\* position and for every length.
Content(L) == [k \in 1..L |-> 16 * L + k - 1]

\* Lengths of the contents handed to write: every length up to the largest
\* file, and beyond it.
Lens == 0..(MAX_FILE_SIZE + ExtraLen)

VARIABLES
    st,        \* "Unopened", "Mounted" or "Closed": the session
    img,       \* TRUE when the image file exists
    super,     \* fs->super
    inodes,    \* fs->inodes
    bitmap,    \* fs->bitmap
    dsuper,    \* image: the superblock region
    dinodes,   \* image: the inode table region
    dbitmap,   \* image: the bitmap region
    ddata,     \* image: the data blocks, by block index
    imglen,    \* image: the length of the file in bytes
    last,      \* the last operation, its arguments and what it returned
    wr         \* the fs_write_file call under way, when it is run fwrite by fwrite

fsvars   == <<super, inodes, bitmap>>
diskvars == <<dsuper, dinodes, dbitmap, ddata, imglen>>
vars     == <<st, img, super, inodes, bitmap, dsuper, dinodes, dbitmap, ddata,
              imglen, last, wr>>

\* ------------------------------------------------------------ values
ZeroSuper ==
    [total_blocks |-> 0, free_blocks |-> 0, block_size |-> 0,
     inode_table_start |-> 0, bitmap_start |-> 0, data_start |-> 0]

\* an inode slot after memset(.., 0, ..)
ZeroInode ==
    [name |-> <<>>, size |-> 0, blocks |-> [i \in 0..(NBLK - 1) |-> 0],
     created |-> 0, modified |-> 0]

ZeroInodes == [i \in 0..(MAX_INODES - 1) |-> ZeroInode]
ZeroBitmap == [i \in 0..(TOTAL_BLOCKS - 1) |-> 0]
ZeroBlock  == [k \in 1..BLOCK_SIZE |-> 0]

\* BlocksFor without the extra block for a remainder
BlocksForFloor(bytes) == bytes \div BLOCK_SIZE

\* bytes / BLOCK_SIZE rounded up, as fs_init writes it
BlocksFor(bytes) ==
    (bytes \div BLOCK_SIZE) + (IF bytes % BLOCK_SIZE # 0 THEN 1 ELSE 0)

\* the superblock fs_init computes when it formats
FormatSuper ==
    LET its == 1
        bs  == its + BlocksFor(SizeofInode * MAX_INODES)
        ds  == bs + BlocksFor(SizeofBitmap)
    IN  [total_blocks |-> TOTAL_BLOCKS, free_blocks |-> TOTAL_BLOCKS - 1,
         block_size |-> BLOCK_SIZE, inode_table_start |-> its,
         bitmap_start |-> bs, data_start |-> ds]

\* ------------------------------------------------------------ bitmap
RECURSIVE ScanFree(_, _, _)
ScanFree(bm, i, total) ==
    IF i >= total THEN -1
    ELSE IF bm[i] = 0 THEN i
    ELSE ScanFree(bm, i + 1, total)

\* get_free_block scanning from block 0
get_free_block_from_zero(bm, sb) == ScanFree(bm, 0, sb.total_blocks)

get_free_block(bm, sb) == ScanFree(bm, sb.data_start, sb.total_blocks)

\* set_block that leaves the bitmap alone
set_block_ignored(bm, block, value) == bm

set_block(bm, block, value) ==
    IF block < 0 \/ block >= TOTAL_BLOCKS THEN bm
    ELSE [bm EXCEPT ![block] = value]

\* FormatBitmap without the reservation of block 0
FormatBitmapNoReserve == ZeroBitmap

\* the bitmap fs_init builds when it formats: memset 0, then set_block(0, 1)
FormatBitmap == set_block(ZeroBitmap, 0, 1)

\* ------------------------------------------------------------ inode table
\* strncpy(dst, name, MAX_FILENAME) into a slot: the bytes kept
Strncpy(name) ==
    IF Len(name) >= MAX_FILENAME THEN SubSeq(name, 1, MAX_FILENAME) ELSE name

RECURSIVE FindFrom(_, _, _)
FindFrom(tbl, name, i) ==
    IF i >= MAX_INODES THEN -1
    ELSE IF tbl[i].name # <<>> /\ tbl[i].name = name THEN i
    ELSE FindFrom(tbl, name, i + 1)

fs_find_inode(tbl, name) == FindFrom(tbl, name, 0)

RECURSIVE FreeSlotFrom(_, _)
FreeSlotFrom(tbl, i) ==
    IF i >= MAX_INODES THEN -1
    ELSE IF tbl[i].name = <<>> THEN i
    ELSE FreeSlotFrom(tbl, i + 1)

\* The block indices of the image's data area.  ddata holds these blocks
\* only: a block write below data_start would land in a metadata region, and
\* no handler issues one, since blocks[] takes its entries from
\* get_free_block alone.
DataIdx == FormatSuper.data_start..(TOTAL_BLOCKS - 1)

\* DiskWrite with the bytes never reaching the image
DiskWriteLost(dd, block, buffer) == dd

\* fseek(block * BLOCK_SIZE); fwrite(buffer, BLOCK_SIZE)
DiskWrite(dd, block, buffer) ==
    IF block \in DOMAIN dd THEN [dd EXCEPT ![block] = buffer] ELSE dd

\* fseek(block * BLOCK_SIZE); fread(buffer, BLOCK_SIZE)
DiskRead(dd, block) ==
    IF block \in DOMAIN dd THEN dd[block] ELSE ZeroBlock

\* the length of the file after fwrite has put BLOCK_SIZE bytes at block
LenAfterWrite(len, block) ==
    IF (block + 1) * BLOCK_SIZE > len THEN (block + 1) * BLOCK_SIZE ELSE len

\* the file position the bitmap fwrite of the format leaves
ZeroFillStart == FormatSuper.bitmap_start * BLOCK_SIZE + SizeofBitmap

\* The length of the file after the format: the zero-fill loop writes one
\* block per data block from the position the bitmap fwrite left, with no
\* fseek to data_start * BLOCK_SIZE.
FormatImageLen ==
    ZeroFillStart + (TOTAL_BLOCKS - FormatSuper.data_start) * BLOCK_SIZE

\* no fs_write_file call under way
Idle == [at |-> "idle", i |-> 0, name |-> <<>>, data |-> <<>>, left |-> 0,
         fresh |-> 0, leak |-> FALSE, dangling |-> FALSE]

NoOp == [op |-> "none", name |-> <<>>, data |-> <<>>, ret |-> 0,
         err |-> "", out |-> <<>>, files |-> <<>>]

Init ==
    /\ st = "Unopened"
    /\ img = FALSE
    /\ super = ZeroSuper
    /\ inodes = ZeroInodes
    /\ bitmap = ZeroBitmap
    /\ dsuper = ZeroSuper
    /\ dinodes = ZeroInodes
    /\ dbitmap = ZeroBitmap
    /\ ddata = [b \in DataIdx |-> ZeroBlock]
    /\ imglen = 0
    /\ last = NoOp
    /\ wr = Idle

\* fs_init, no image yet: create and format
Format ==
    /\ st = "Unopened"
    /\ ~img
    /\ st' = "Mounted"
    /\ img' = TRUE
    /\ super' = FormatSuper
    /\ inodes' = ZeroInodes
    /\ bitmap' = FormatBitmap
    /\ dsuper' = super'
    /\ dinodes' = inodes'
    /\ dbitmap' = bitmap'
    /\ ddata' = [b \in DataIdx |-> ZeroBlock]
    /\ imglen' = FormatImageLen
    /\ last' = [NoOp EXCEPT !.op = "format"]
    /\ UNCHANGED wr

\* Mount that formats the image it finds
MountReformats ==
    /\ st = "Closed"
    /\ img
    /\ st' = "Mounted"
    /\ super' = FormatSuper
    /\ inodes' = ZeroInodes
    /\ bitmap' = FormatBitmap
    /\ dsuper' = super'
    /\ dinodes' = inodes'
    /\ dbitmap' = bitmap'
    /\ ddata' = [b \in DataIdx |-> ZeroBlock]
    /\ imglen' = FormatImageLen
    /\ last' = [NoOp EXCEPT !.op = "mount"]
    /\ UNCHANGED <<img, wr>>

\* fs_init, the image exists: load the superblock, then the inode table and
\* the bitmap from the offsets the loaded superblock names (the regions the
\* format wrote them to)
Mount ==
    /\ st = "Closed"
    /\ img
    /\ st' = "Mounted"
    /\ super' = dsuper
    /\ inodes' = dinodes
    /\ bitmap' = dbitmap
    /\ last' = [NoOp EXCEPT !.op = "mount"]
    /\ UNCHANGED <<img, dsuper, dinodes, dbitmap, ddata, imglen, wr>>

\* fs_close_fs: fclose and free; nothing is written that was not written
\* before.  super, inodes and bitmap keep the values the memory held when it
\* was released.
Close ==
    /\ st = "Mounted"
    /\ st' = "Closed"
    /\ last' = [NoOp EXCEPT !.op = "close"]
    /\ UNCHANGED <<img, super, inodes, bitmap, dsuper, dinodes, dbitmap, ddata,
                   imglen, wr>>

\* the slot fs_create_file initialises
NewInode(name) ==
    [name |-> Strncpy(name), size |-> 0,
     blocks |-> [i \in 0..(NBLK - 1) |-> -1],
     created |-> Now, modified |-> Now]

\* CreateResult without the fs_find_inode check
CreateResultNoFind(tbl, name) ==
    LET inode_num == FreeSlotFrom(tbl, 0)
    IN  IF inode_num = -1
        THEN [ret |-> -1, err |-> "NoFreeInode", tbl |-> tbl, flush |-> FALSE]
        ELSE [ret |-> inode_num, err |-> "",
              tbl |-> [tbl EXCEPT ![inode_num] = NewInode(name)],
              flush |-> TRUE]

\* CreateResult that takes the last slot when no slot is free
CreateResultNoFull(tbl, name) ==
    IF fs_find_inode(tbl, name) # -1
    THEN [ret |-> -1, err |-> "AlreadyExists", tbl |-> tbl, flush |-> FALSE]
    ELSE LET free == FreeSlotFrom(tbl, 0)
             inode_num == IF free = -1 THEN MAX_INODES - 1 ELSE free
         IN  [ret |-> inode_num, err |-> "",
              tbl |-> [tbl EXCEPT ![inode_num] = NewInode(name)],
              flush |-> TRUE]

\* what fs_create_file does to the inode table, and what it returns
CreateResult(tbl, name) ==
    IF fs_find_inode(tbl, name) # -1
    THEN [ret |-> -1, err |-> "AlreadyExists", tbl |-> tbl, flush |-> FALSE]
    ELSE LET inode_num == FreeSlotFrom(tbl, 0)
         IN  IF inode_num = -1
             THEN [ret |-> -1, err |-> "NoFreeInode", tbl |-> tbl, flush |-> FALSE]
             ELSE [ret |-> inode_num, err |-> "",
                   tbl |-> [tbl EXCEPT ![inode_num] = NewInode(name)],
                   flush |-> TRUE]

Create(name) ==
    /\ st = "Mounted"
    /\ LET r == CreateResult(inodes, name)
       IN  /\ inodes' = r.tbl
           /\ dinodes' = IF r.flush THEN r.tbl ELSE dinodes
           /\ last' = [NoOp EXCEPT !.op = "create", !.name = name,
                                   !.ret = r.ret, !.err = r.err]
    /\ UNCHANGED <<st, img, super, bitmap, dsuper, dbitmap, ddata, imglen, wr>>

\* ------------------------------------------------------------ write
\* The allocation loop of fs_write_file from position i on.  s carries the
\* inode's blocks[], the bitmap and the superblock in memory, the bitmap and
\* superblock regions of the image (rewritten after every allocation), and
\* ok = FALSE once get_free_block has failed (the early return).
\* Owns that finds no position taken
OwnsNone(blocks, i) == FALSE

\* inode->blocks[i] != -1: the inode has a block at position i
Owns(blocks, i) == blocks[i] # -1

\* TakeBlock that leaves the counter alone
TakeBlockUncounted(sb) == sb

\* fs->super.free_blocks--
TakeBlock(sb) == [sb EXCEPT !.free_blocks = @ - 1]

RECURSIVE AllocBlocks(_, _, _)
AllocBlocks(i, blocks_needed, s) ==
    IF i >= blocks_needed THEN s
    ELSE IF Owns(s.blocks, i) THEN AllocBlocks(i + 1, blocks_needed, s)
    ELSE LET block == get_free_block(s.bitmap, s.super)
         IN  IF block = -1 THEN [s EXCEPT !.ok = FALSE]
             ELSE LET bm == set_block(s.bitmap, block, 1)
                      sb == TakeBlock(s.super)
                  IN  AllocBlocks(i + 1, blocks_needed,
                          [blocks |-> [s.blocks EXCEPT ![i] = block],
                           bitmap |-> bm, super |-> sb,
                           dbitmap |-> bm, dsuper |-> sb, ok |-> TRUE])

\* BlockBuffer with the copy taken from the start of data for every position
BlockBufferNoOffset(data, i, copy_len) ==
    [k \in 1..BLOCK_SIZE |-> IF k <= copy_len THEN data[k] ELSE 0]

\* the zero-padded buffer of position i: copy_len bytes from data + i * BLOCK_SIZE
BlockBuffer(data, i, copy_len) ==
    [k \in 1..BLOCK_SIZE |->
        IF k <= copy_len THEN data[i * BLOCK_SIZE + k] ELSE 0]

\* The data loop of fs_write_file from position i on: data_len is what is
\* left to copy, dd the data blocks of the image.
RECURSIVE WriteBlocks(_, _, _, _, _, _)
WriteBlocks(i, blocks_needed, blocks, data, data_len, dd) ==
    IF i >= blocks_needed THEN dd
    ELSE LET block == blocks[i]
         IN  IF block = -1
             THEN WriteBlocks(i + 1, blocks_needed, blocks, data, data_len, dd)
             ELSE LET copy_len == IF data_len > BLOCK_SIZE THEN BLOCK_SIZE
                                  ELSE data_len
                  IN  WriteBlocks(i + 1, blocks_needed, blocks, data,
                          data_len - copy_len,
                          DiskWrite(dd, block, BlockBuffer(data, i, copy_len)))

\* the length of the file after the data loop of fs_write_file from position i on
RECURSIVE LenAfterBlocks(_, _, _, _)
LenAfterBlocks(i, blocks_needed, blocks, len) ==
    IF i >= blocks_needed THEN len
    ELSE IF blocks[i] = -1 THEN LenAfterBlocks(i + 1, blocks_needed, blocks, len)
    ELSE LenAfterBlocks(i + 1, blocks_needed, blocks,
                        LenAfterWrite(len, blocks[i]))

\* BlocksNeeded rounding down
BlocksNeededFloor(data_len) == data_len \div BLOCK_SIZE

\* blocks_needed of fs_write_file
BlocksNeeded(data_len) == (data_len + BLOCK_SIZE - 1) \div BLOCK_SIZE

\* TooLarge that also refuses a length of exactly MAX_FILE_SIZE
TooLargeAtLimit(data_len) == data_len >= MAX_FILE_SIZE

\* the length check of fs_write_file
TooLarge(data_len) == data_len > MAX_FILE_SIZE

Write(name, data) ==
    /\ st = "Mounted"
    /\ LET inode_num == fs_find_inode(inodes, name)
           data_len  == Len(data)
           done(ret, err) ==
               last' = [NoOp EXCEPT !.op = "write", !.name = name,
                                    !.data = data, !.ret = ret, !.err = err]
       IN  IF inode_num = -1
           THEN \* returns before it looks at data
                /\ last' = [NoOp EXCEPT !.op = "write", !.name = name,
                                        !.ret = -1, !.err = "NotFound"]
                /\ UNCHANGED <<super, inodes, bitmap, dsuper, dinodes, dbitmap,
                               ddata, imglen>>
           ELSE IF TooLarge(data_len)
           THEN /\ done(-1, "TooLarge")
                /\ UNCHANGED <<super, inodes, bitmap, dsuper, dinodes, dbitmap,
                               ddata, imglen>>
           ELSE LET blocks_needed == BlocksNeeded(data_len)
                    a == AllocBlocks(0, blocks_needed,
                             [blocks |-> inodes[inode_num].blocks,
                              bitmap |-> bitmap, super |-> super,
                              dbitmap |-> dbitmap, dsuper |-> dsuper,
                              ok |-> TRUE])
                IN  /\ super' = a.super
                    /\ bitmap' = a.bitmap
                    /\ dsuper' = a.dsuper
                    /\ dbitmap' = a.dbitmap
                    /\ IF ~a.ok
                       THEN /\ inodes' = [inodes EXCEPT ![inode_num].blocks = a.blocks]
                            /\ done(-1, "NoFreeBlock")
                            /\ UNCHANGED <<dinodes, ddata, imglen>>
                       ELSE /\ ddata' = WriteBlocks(0, blocks_needed, a.blocks,
                                            data, data_len, ddata)
                            /\ inodes' = [inodes EXCEPT
                                   ![inode_num].blocks = a.blocks,
                                   ![inode_num].size = Len(data),
                                   ![inode_num].modified = Now]
                            /\ dinodes' = inodes'
                            /\ imglen' = LenAfterBlocks(0, blocks_needed,
                                              a.blocks, imglen)
                            /\ done(0, "")
    /\ UNCHANGED <<st, img, wr>>

\* ------------------------------------------------------------ read
\* The copy loop of fs_read_file from position i on: acc is data[0..bytes_read).
RECURSIVE ReadBlocks(_, _, _, _)
ReadBlocks(i, inode, dd, acc) ==
    IF i >= NBLK \/ Len(acc) >= inode.size THEN acc
    ELSE LET block == inode.blocks[i]
         IN  IF block = -1 THEN acc
             ELSE LET buffer == DiskRead(dd, block)
                      left == inode.size - Len(acc)
                      copy_len == IF left > BLOCK_SIZE THEN BLOCK_SIZE ELSE left
                  IN  ReadBlocks(i + 1, inode, dd,
                                 acc \o SubSeq(buffer, 1, copy_len))

\* a byte of the malloc'ed buffer the copy loop never reached
Uninit == {0, 170}

\* what printf("%s") shows of a buffer: the bytes before its first 0
RECURSIVE CStr(_)
CStr(buf) ==
    IF buf = <<>> \/ Head(buf) = 0 THEN <<>>
    ELSE <<Head(buf)>> \o CStr(Tail(buf))

\* every content fs_read_file can print for the file in slot inode_num
ReadOutputs(tbl, dd, inode_num) ==
    LET inode == tbl[inode_num]
    IN  IF inode.size = 0 THEN {<<>>}
        ELSE LET got == ReadBlocks(0, inode, dd, <<>>)
                 rest == inode.size - Len(got)
             IN  {CStr(got \o tail) : tail \in [1..rest -> Uninit]}

Read(name) ==
    /\ st = "Mounted"
    /\ LET inode_num == fs_find_inode(inodes, name)
       IN  IF inode_num = -1
           THEN last' = [NoOp EXCEPT !.op = "read", !.name = name,
                                     !.ret = -1, !.err = "NotFound"]
           ELSE \E o \in ReadOutputs(inodes, ddata, inode_num) :
                    last' = [NoOp EXCEPT !.op = "read", !.name = name,
                                         !.ret = 0, !.out = o]
    /\ UNCHANGED <<st, img, super, inodes, bitmap, dsuper, dinodes, dbitmap,
                   ddata, imglen, wr>>

\* ------------------------------------------------------------ list
\* the lines fs_list_files prints from slot i on: name and size
RECURSIVE ListFrom(_, _)
ListFrom(tbl, i) ==
    IF i >= MAX_INODES THEN <<>>
    ELSE IF tbl[i].name # <<>>
         THEN << <<tbl[i].name, tbl[i].size>> >> \o ListFrom(tbl, i + 1)
         ELSE ListFrom(tbl, i + 1)

fs_list_files(tbl) == ListFrom(tbl, 0)

List ==
    /\ st = "Mounted"
    /\ last' = [NoOp EXCEPT !.op = "list", !.files = fs_list_files(inodes)]
    /\ UNCHANGED <<st, img, super, inodes, bitmap, dsuper, dinodes, dbitmap,
                   ddata, imglen, wr>>

Next ==
    \/ Format
    \/ Mount
    \/ Close
    \/ \E name \in Names : Create(name)
    \/ \E name \in Names, len \in Lens : Write(name, Content(len))
    \/ \E name \in Names : Read(name)
    \/ List

Spec == Init /\ [][Next]_vars

\* the (slot, position) pairs of the named inodes of tbl that hold a block
Attached(tbl) ==
    {p \in (0..(MAX_INODES - 1)) \X (0..(NBLK - 1)) :
        tbl[p[1]].name # <<>> /\ tbl[p[1]].blocks[p[2]] # -1}

\* ------------------------------------------------------------ write, fwrite by fwrite
\* fs_write_file run one region write at a time.  Every fwrite follows an
\* fseek, and an fseek hands the bytes of the fwrite before it to the file,
\* so the regions reach the image in program order and a process that stops
\* leaves the image as it is after some prefix of them.

\* a data block the bitmap bm marks used and no named inode of tbl holds
UsedUnattached(tbl, bm) ==
    \E b \in DataIdx :
        /\ bm[b] = 1
        /\ \A p \in Attached(tbl) : tbl[p[1]].blocks[p[2]] # b

\* a block a named inode of tbl holds and the bitmap bm does not mark used
AttachedUnused(tbl, bm) ==
    \E p \in Attached(tbl) :
        LET b == tbl[p[1]].blocks[p[2]]
        IN  b \notin DOMAIN bm \/ bm[b] # 1

\* w with a record of what the image (inode table tbl, bitmap bm) shows at
\* this point between two region writes of the call
Seen(w, tbl, bm) ==
    [w EXCEPT !.leak = @ \/ UsedUnattached(tbl, bm),
              !.dangling = @ \/ AttachedUnused(tbl, bm)]

\* FlushBitmap with the bytes never reaching the image
FlushBitmapLost(bm, dbm) == dbm

\* the bitmap region of the image after fseek(bitmap_start * BLOCK_SIZE);
\* fwrite(fs->bitmap): bm is the bitmap in memory, dbm the region before
FlushBitmap(bm, dbm) == bm

\* fs_write_file up to blocks_needed, for a call that is not refused
WBegin(name, data) ==
    /\ st = "Mounted"
    /\ wr.at = "idle"
    /\ fs_find_inode(inodes, name) # -1
    /\ ~TooLarge(Len(data))
    /\ wr' = [Idle EXCEPT !.at = "alloc", !.name = name, !.data = data,
                          !.left = Len(data)]
    /\ last' = [NoOp EXCEPT !.op = "write", !.name = name, !.data = data,
                            !.err = "Running"]
    /\ UNCHANGED <<st, img, fsvars, diskvars>>

\* one turn of the allocation loop, up to the fwrite of the bitmap
WAlloc ==
    /\ st = "Mounted"
    /\ wr.at = "alloc"
    /\ LET k == fs_find_inode(inodes, wr.name)
           blocks_needed == BlocksNeeded(Len(wr.data))
       IN  IF wr.i >= blocks_needed
           THEN /\ wr' = [wr EXCEPT !.at = "data", !.i = 0]
                /\ UNCHANGED <<fsvars, diskvars, last>>
           ELSE IF Owns(inodes[k].blocks, wr.i)
           THEN /\ wr' = [wr EXCEPT !.i = @ + 1]
                /\ UNCHANGED <<fsvars, diskvars, last>>
           ELSE LET block == get_free_block(bitmap, super)
                IN  IF block = -1
                    THEN /\ wr' = Idle
                         /\ last' = [last EXCEPT !.ret = -1, !.err = "NoFreeBlock"]
                         /\ UNCHANGED <<fsvars, diskvars>>
                    ELSE /\ inodes' = [inodes EXCEPT ![k].blocks[wr.i] = block]
                         /\ bitmap' = set_block(bitmap, block, 1)
                         /\ super' = TakeBlock(super)
                         /\ dbitmap' = FlushBitmap(bitmap', dbitmap)
                         /\ wr' = Seen([wr EXCEPT !.at = "super", !.fresh = @ + 1],
                                       dinodes, dbitmap')
                         /\ UNCHANGED <<dsuper, dinodes, ddata, imglen, last>>
    /\ UNCHANGED <<st, img>>

\* the fwrite of the superblock that ends the turn
WSuper ==
    /\ st = "Mounted"
    /\ wr.at = "super"
    /\ dsuper' = super
    /\ wr' = Seen([wr EXCEPT !.at = "alloc", !.i = @ + 1], dinodes, dbitmap)
    /\ UNCHANGED <<st, img, fsvars, dinodes, dbitmap, ddata, imglen, last>>

\* one turn of the data loop: the fwrite of one block
WData ==
    /\ st = "Mounted"
    /\ wr.at = "data"
    /\ LET k == fs_find_inode(inodes, wr.name)
           blocks_needed == BlocksNeeded(Len(wr.data))
       IN  IF wr.i >= blocks_needed
           THEN /\ wr' = [wr EXCEPT !.at = "table"]
                /\ UNCHANGED <<ddata, imglen>>
           ELSE LET block == inodes[k].blocks[wr.i]
                    copy_len == IF wr.left > BLOCK_SIZE THEN BLOCK_SIZE ELSE wr.left
                IN  IF block = -1
                    THEN /\ wr' = [wr EXCEPT !.i = @ + 1]
                         /\ UNCHANGED <<ddata, imglen>>
                    ELSE /\ ddata' = DiskWrite(ddata, block,
                                          BlockBuffer(wr.data, wr.i, copy_len))
                         /\ imglen' = LenAfterWrite(imglen, block)
                         /\ wr' = Seen([wr EXCEPT !.i = @ + 1, !.left = @ - copy_len],
                                       dinodes, dbitmap)
    /\ UNCHANGED <<st, img, fsvars, dsuper, dinodes, dbitmap, last>>

\* size, modified, the fwrite of the inode table and the return
WTable ==
    /\ st = "Mounted"
    /\ wr.at = "table"
    /\ LET k == fs_find_inode(inodes, wr.name)
       IN  inodes' = [inodes EXCEPT ![k].size = Len(wr.data),
                                    ![k].modified = Now]
    /\ dinodes' = inodes'
    /\ last' = [last EXCEPT !.ret = 0, !.err = ""]
    /\ wr' = Idle
    /\ UNCHANGED <<st, img, super, bitmap, dsuper, dbitmap, ddata, imglen>>

\* The process stops, within fs_write_file or between two calls; the image
\* keeps what has reached it.  last.err tells where the call stood.
Crash ==
    /\ st = "Mounted"
    /\ st' = "Closed"
    /\ last' = [NoOp EXCEPT !.op = "crash", !.err = wr.at]
    /\ wr' = Idle
    /\ UNCHANGED <<img, fsvars, diskvars>>

\* The calls run fwrite by fwrite: the one-byte file names, and contents of
\* no byte, of one byte and of MAX_FILE_SIZE bytes.  The calls that
\* fs_write_file refuses write nothing and are left to Spec.
CrashNames == {n \in Names : Len(n) = 1}
CrashLens == {0, 1, MAX_FILE_SIZE}

NextCrash ==
    \/ Format
    \/ Mount
    \/ wr.at = "idle" /\ Close
    \/ \E name \in CrashNames : wr.at = "idle" /\ Create(name)
    \/ \E name \in CrashNames, len \in CrashLens : WBegin(name, Content(len))
    \/ WAlloc
    \/ WSuper
    \/ WData
    \/ WTable
    \/ Crash

SpecCrash == Init /\ [][NextCrash]_vars

\* ------------------------------------------------------------ misuse
\* The handlers take the FileSystem pointer as it comes: none of them tests
\* whether fs_init has produced it or fs_close_fs has freed it.  A call in
\* such a session dereferences an indeterminate or dangling pointer.  What
\* the build can then do: stop with a fault ("Crash"), or run the handler
\* over whatever the memory holds and return one of the handler's own
\* results.  The stream in that memory is not open, so the image keeps its
\* bytes; super, inodes and bitmap stay what the memory held at the release.
HandlerOps == {"create", "write", "read", "list"}

HandlerResults(op) ==
    IF op = "create" THEN {"", "AlreadyExists", "NoFreeInode"}
    ELSE IF op = "write" THEN {"", "NotFound", "TooLarge", "NoFreeBlock"}
    ELSE IF op = "read" THEN {"", "NotFound"}
    ELSE {""}

UseReleased(op) ==
    /\ st \in {"Unopened", "Closed"}
    /\ \E e \in HandlerResults(op) \cup {"Crash"} :
           last' = [NoOp EXCEPT !.op = op, !.err = e,
                                !.ret = IF e = "" THEN 0 ELSE -1]
    /\ UNCHANGED <<st, img, super, inodes, bitmap, dsuper, dinodes, dbitmap,
                   ddata, imglen, wr>>

\* fs_close_fs on the pointer it has freed: fs is not NULL, so fclose and
\* free run again on released memory; the function is void and either
\* returns or the allocator aborts the process
CloseAgain ==
    /\ st = "Closed"
    /\ \E e \in {"", "Crash"} : last' = [NoOp EXCEPT !.op = "close", !.err = e]
    /\ UNCHANGED <<st, img, super, inodes, bitmap, dsuper, dinodes, dbitmap,
                   ddata, imglen, wr>>

NextMisuse ==
    \/ Next
    \/ \E op \in HandlerOps : UseReleased(op)
    \/ CloseAgain

SpecMisuse == Init /\ [][NextMisuse]_vars

\* ------------------------------------------------------------ src/omin.c
\* The create-only variant.  Its types, its bitmap helpers, fs_init,
\* fs_close_fs and fs_find_inode are the text of tinyfs.c; fs_create_file
\* takes blocks for the new file.  It runs over the same variables.
OminFormat == Format
OminMount == Mount
OminClose == Close

\* num_blocks of fs_create_file for a name of name_len bytes
OminNumBlocks(name_len) == (name_len + 1) \div BLOCK_SIZE + 1

\* The allocation loop of fs_create_file from position i on: s carries the
\* slot's blocks[], the bitmap in memory, and ok = FALSE once
\* get_free_block has failed (the early return).
RECURSIVE OminAlloc(_, _, _)
OminAlloc(i, num_blocks, s) ==
    IF i >= num_blocks THEN s
    ELSE LET free_block == get_free_block(s.bitmap, super)
         IN  IF free_block = -1 THEN [s EXCEPT !.ok = FALSE]
             ELSE OminAlloc(i + 1, num_blocks,
                      [blocks |-> [s.blocks EXCEPT ![i] = free_block],
                       bitmap |-> set_block(s.bitmap, free_block, 1),
                       ok |-> TRUE])

\* fs_create_file of omin.c.  Only the inode table is written to the
\* image; the bitmap is changed in memory alone and free_blocks not at all.
\* The entries of blocks[] from num_blocks on keep what the slot held.
OminCreate(name) ==
    /\ st = "Mounted"
    /\ LET done(ret, err) ==
               last' = [NoOp EXCEPT !.op = "create", !.name = name,
                                    !.ret = ret, !.err = err]
           inode_num == FreeSlotFrom(inodes, 0)
       IN  IF fs_find_inode(inodes, name) # -1
           THEN /\ done(-1, "AlreadyExists")
                /\ UNCHANGED <<inodes, bitmap, dinodes>>
           ELSE IF inode_num = -1
           THEN /\ done(-1, "NoFreeInode")
                /\ UNCHANGED <<inodes, bitmap, dinodes>>
           ELSE LET a == OminAlloc(0, OminNumBlocks(Len(name)),
                             [blocks |-> inodes[inode_num].blocks,
                              bitmap |-> bitmap, ok |-> TRUE])
                IN  /\ bitmap' = a.bitmap
                    /\ IF ~a.ok
                       THEN /\ inodes' = [inodes EXCEPT ![inode_num].blocks = a.blocks]
                            /\ done(-1, "NoFreeBlock")
                            /\ UNCHANGED dinodes
                       ELSE /\ inodes' = [inodes EXCEPT ![inode_num] =
                                   [name |-> name, size |-> Len(name) + 1,
                                    blocks |-> a.blocks,
                                    created |-> Now, modified |-> Now]]
                            /\ dinodes' = inodes'
                            /\ done(0, "")
    /\ UNCHANGED <<st, img, super, dsuper, dbitmap, ddata, imglen, wr>>

\* fs_list_files of omin.c: the named slots, with name and size
OminList == List

NextOmin ==
    \/ OminFormat
    \/ OminMount
    \/ OminClose
    \/ \E name \in Names : OminCreate(name)
    \/ OminList

SpecOmin == Init /\ [][NextOmin]_vars

\* ------------------------------------------------------------ src/minifs_2.c
\* The in-memory variant: one global FileSystem with the data blocks in an
\* array, no image and no session.  It runs over super, inodes, bitmap and
\* ddata (fs.data); write creates the file it does not find.

\* #define TOTAL_BLOCKS 1024, scaled: the length of fs.bitmap and fs.data
MiniTotalBlocks == 3

MiniBlocks == 0..(MiniTotalBlocks - 1)

\* fs_init: memset 0, then the superblock fields
MiniInit ==
    /\ st = "Mounted"
    /\ img = FALSE
    /\ super = [ZeroSuper EXCEPT !.total_blocks = MiniTotalBlocks,
                                 !.free_blocks = MiniTotalBlocks,
                                 !.block_size = BLOCK_SIZE]
    /\ inodes = ZeroInodes
    /\ bitmap = [b \in MiniBlocks |-> 0]
    /\ ddata = [b \in MiniBlocks |-> ZeroBlock]
    /\ dsuper = ZeroSuper
    /\ dinodes = ZeroInodes
    /\ dbitmap = ZeroBitmap
    /\ imglen = 0
    /\ last = NoOp
    /\ wr = Idle

\* fs_find_inode: strcmp alone, so the empty name finds the first unnamed slot
RECURSIVE MiniFindFrom(_, _, _)
MiniFindFrom(tbl, name, i) ==
    IF i >= MAX_INODES THEN -1
    ELSE IF tbl[i].name = name THEN i
    ELSE MiniFindFrom(tbl, name, i + 1)

\* get_free_block: the scan starts at block 0
MiniFreeBlock(bm) == ScanFree(bm, 0, MiniTotalBlocks)

\* the first position of blocks[] that holds 0, or -1
RECURSIVE MiniZeroEntry(_, _)
MiniZeroEntry(blocks, i) ==
    IF i >= NBLK THEN -1
    ELSE IF blocks[i] = 0 THEN i
    ELSE MiniZeroEntry(blocks, i + 1)

\* fs_update_inode on the slot value inode (the bitmap is set by the caller
\* of this operator)
MiniUpdateInode(inode, block_index, size) ==
    LET z == MiniZeroEntry(inode.blocks, 0)
        blocks == IF inode.size = 0
                  THEN [inode.blocks EXCEPT ![0] = block_index]
                  ELSE IF z = -1 THEN inode.blocks
                  ELSE [inode.blocks EXCEPT ![z] = block_index]
    IN  [inode EXCEPT !.blocks = blocks, !.size = size]

\* memcpy(fs.data[block_index], data + start, end - start)
MiniCopy(block, data, start, end) ==
    [k \in 1..BLOCK_SIZE |-> IF k <= end - start THEN data[start + k] ELSE block[k]]

\* The block loop of fs_write_file from i on.  s carries the inode table,
\* the bitmap, fs.data, and ok = FALSE once get_free_block has failed.
\* inode_index = -1 (no slot was free) makes fs_update_inode write to
\* fs.inodes[-1], outside the table: the table keeps its values.
RECURSIVE MiniWriteLoop(_, _, _, _, _)
MiniWriteLoop(i, blocks_needed, inode_index, data, s) ==
    IF i >= blocks_needed THEN s
    ELSE LET block_index == MiniFreeBlock(s.bitmap)
             start == i * BLOCK_SIZE
             end == IF start + BLOCK_SIZE < Len(data) THEN start + BLOCK_SIZE
                    ELSE Len(data)
         IN  IF block_index = -1 THEN [s EXCEPT !.ok = FALSE]
             ELSE MiniWriteLoop(i + 1, blocks_needed, inode_index, data,
                      [tbl |-> IF inode_index = -1 THEN s.tbl
                               ELSE [s.tbl EXCEPT ![inode_index] =
                                        MiniUpdateInode(@, block_index, end)],
                       bitmap |-> [s.bitmap EXCEPT ![block_index] = 1],
                       data |-> [s.data EXCEPT ![block_index] =
                                    MiniCopy(@, data, start, end)],
                       ok |-> TRUE])

\* fs_write_file of minifs_2.c
MiniWrite(name, data) ==
    /\ LET found == MiniFindFrom(inodes, name, 0)
           slot == FreeSlotFrom(inodes, 0)
           inode_index == IF found # -1 THEN found ELSE slot
           tbl0 == IF found = -1 /\ slot # -1
                   THEN [inodes EXCEPT ![slot].name = name, ![slot].created = Now]
                   ELSE inodes
           r == MiniWriteLoop(0, BlocksNeeded(Len(data)), inode_index, data,
                    [tbl |-> tbl0, bitmap |-> bitmap, data |-> ddata, ok |-> TRUE])
       IN  /\ inodes' = IF r.ok /\ inode_index # -1
                        THEN [r.tbl EXCEPT ![inode_index].modified = Now]
                        ELSE r.tbl
           /\ bitmap' = r.bitmap
           /\ ddata' = r.data
           /\ last' = [NoOp EXCEPT !.op = "write", !.name = name, !.data = data,
                                   !.err = IF inode_index = -1 THEN "OutOfBounds"
                                           ELSE IF ~r.ok THEN "NoFreeBlock"
                                           ELSE ""]
    /\ UNCHANGED <<st, img, super, dsuper, dinodes, dbitmap, imglen, wr>>

\* the bytes of fs.data from block b to the end of the array
RECURSIVE MiniBytesFrom(_, _)
MiniBytesFrom(data, b) ==
    IF b >= MiniTotalBlocks THEN <<>>
    ELSE data[b] \o MiniBytesFrom(data, b + 1)

\* What printf("%s", fs.data[b]) can show: the bytes from block b up to the
\* first 0, running on through the blocks that follow; with no 0 up to the
\* end of fs.data it reads past the object, where it stops or shows more.
MiniPrint(data, b) ==
    LET bytes == MiniBytesFrom(data, b)
    IN  IF \E k \in 1..Len(bytes) : bytes[k] = 0
        THEN {CStr(bytes)}
        ELSE {bytes \o t : t \in {<<>>} \cup {<<u>> : u \in Uninit \ {0}}}

\* every output the print loop of fs_read_file can give from position i on
RECURSIVE MiniReadFrom(_, _, _)
MiniReadFrom(inode, data, i) ==
    IF i >= NBLK THEN {<<>>}
    ELSE LET rest == MiniReadFrom(inode, data, i + 1)
         IN  IF inode.blocks[i] # 0
             THEN {h \o t : h \in MiniPrint(data, inode.blocks[i]), t \in rest}
             ELSE rest

MiniReadOutputs(tbl, data, inode_index) == MiniReadFrom(tbl[inode_index], data, 0)

\* fs_read_file of minifs_2.c
MiniRead(name) ==
    /\ LET inode_index == MiniFindFrom(inodes, name, 0)
       IN  IF inode_index = -1
           THEN last' = [NoOp EXCEPT !.op = "read", !.name = name,
                                     !.ret = -1, !.err = "NotFound"]
           ELSE \E o \in MiniReadOutputs(inodes, ddata, inode_index) :
                    last' = [NoOp EXCEPT !.op = "read", !.name = name, !.out = o]
    /\ UNCHANGED <<st, img, super, inodes, bitmap, dsuper, dinodes, dbitmap,
                   ddata, imglen, wr>>

\* fs_list_files of minifs_2.c: the named slots, with name and size
MiniList ==
    /\ last' = [NoOp EXCEPT !.op = "list", !.files = fs_list_files(inodes)]
    /\ UNCHANGED <<st, img, super, inodes, bitmap, dsuper, dinodes, dbitmap,
                   ddata, imglen, wr>>

NextMini ==
    \/ \E name \in Names, len \in Lens : MiniWrite(name, Content(len))
    \/ \E name \in Names : MiniRead(name)
    \/ MiniList

SpecMini == MiniInit /\ [][NextMini]_vars

\* ============================================================ properties
Mounted == st = "Mounted"

\* the least q with q * b >= a
Ceil(a, b) == CHOOSE q \in 0..a : q * b >= a /\ (q = 0 \/ (q - 1) * b < a)

WroteOk == Mounted /\ last.op = "write" /\ last.ret = 0

\* the slot of the file the last operation named
LastSlot == fs_find_inode(inodes, last.name)

\* C1: right after a successful write(name, data) a read(name) can print
\* nothing but data, whatever the file held before.
RoundTrip ==
    WroteOk =>
        /\ Len(last.data) <= FILE_BLOCKS * BLOCK_SIZE
        /\ LastSlot # -1
        /\ ReadOutputs(inodes, ddata, LastSlot) = {last.data}

\* C1 witness: a one-byte write to a file that holds two blocks from an
\* earlier, longer write.
RoundTripShorterRewrite ==
    /\ WroteOk
    /\ Len(last.data) = 1
    /\ inodes[LastSlot].blocks[1] # -1

\* C2: at every operation boundary of a mounted session the inode table and
\* the bitmap of the image equal the ones in memory, so close and re-mount
\* reproduce them.
DiskEqualsMemory ==
    Mounted => (dinodes = inodes /\ dbitmap = bitmap)

\* C3 as claimed: after a successful write of length L exactly the positions
\* below ceil(L / BLOCK_SIZE) are non-sentinel.
WriteOccupiesExactly ==
    WroteOk =>
        LET n == Ceil(Len(last.data), BLOCK_SIZE)
        IN  \A i \in 0..(NBLK - 1) :
                (inodes[LastSlot].blocks[i] # -1) <=> (i < n)

\* C3 amended: a successful write of length L leaves every position below
\* ceil(L / BLOCK_SIZE) non-sentinel, keeps a block the inode already had
\* there, and leaves every higher position as it was before the write.
WriteOccupiesAtLeast ==
    [][(last'.op = "write" /\ last'.ret = 0) =>
        LET k == fs_find_inode(inodes, last'.name)
            n == Ceil(Len(last'.data), BLOCK_SIZE)
        IN  /\ k # -1
            /\ n <= NBLK
            /\ \A i \in 0..(NBLK - 1) :
                  IF i < n
                  THEN /\ inodes'[k].blocks[i] # -1
                       /\ inodes[k].blocks[i] # -1 =>
                              inodes'[k].blocks[i] = inodes[k].blocks[i]
                  ELSE inodes'[k].blocks[i] = inodes[k].blocks[i]]_vars

\* C3 witness: an empty write to a file that keeps the two blocks of an
\* earlier write.
EmptyRewriteKeepsBlocks ==
    /\ WroteOk
    /\ Len(last.data) = 0
    /\ inodes[LastSlot].blocks[0] # -1
    /\ inodes[LastSlot].blocks[1] # -1

AllSentinel(blocks) == \A i \in 0..(NBLK - 1) : blocks[i] = -1

\* C4 as claimed: create fails only for a name that is present or a full
\* table; after a create that succeeded the lookup of the name returns the
\* created slot, empty and without blocks, and the table of the image is the
\* table in memory.
CreateThenLookup ==
    (Mounted /\ last.op = "create") =>
        IF last.ret = -1
        THEN \/ fs_find_inode(inodes, last.name) # -1
             \/ FreeSlotFrom(inodes, 0) = -1
        ELSE /\ fs_find_inode(inodes, last.name) = last.ret
             /\ inodes[last.ret].size = 0
             /\ AllSentinel(inodes[last.ret].blocks)
             /\ dinodes = inodes

\* C5: a create of a name that is present fails AlreadyExists, a create of
\* an absent name into a full table fails NoFreeInode, and neither changes
\* the superblock, the inode table or the bitmap, in memory or in the image.
CreateFailsCleanly ==
    [][last'.op = "create" =>
        LET present == fs_find_inode(inodes, last'.name) # -1
            full    == \A i \in 0..(MAX_INODES - 1) : inodes[i].name # <<>>
        IN  /\ present =>
                  /\ last'.ret = -1
                  /\ last'.err = "AlreadyExists"
                  /\ UNCHANGED <<fsvars, diskvars>>
            /\ (~present /\ full) =>
                  /\ last'.ret = -1
                  /\ last'.err = "NoFreeInode"
                  /\ UNCHANGED <<fsvars, diskvars>>]_vars

\* C5 witness: a named file was refused because every slot is taken.
CreateRefusedTableFull ==
    /\ Mounted
    /\ last.op = "create"
    /\ last.err = "NoFreeInode"
    /\ last.name # <<>>
    /\ \A i \in 0..(MAX_INODES - 1) : inodes[i].name # <<>>

UniqueNames(tbl) ==
    \A i, j \in 0..(MAX_INODES - 1) :
        (i # j /\ tbl[i].name # <<>>) => tbl[i].name # tbl[j].name

KeepsNames(old, new) ==
    \A i \in 0..(MAX_INODES - 1) :
        old[i].name # <<>> => new[i].name = old[i].name

\* C6: no two non-empty slots hold the same name, and a slot that holds a
\* name keeps it, in memory and in the image, across close and re-mount.
NamesUniqueAndKept ==
    /\ [](UniqueNames(inodes) /\ UniqueNames(dinodes))
    /\ [][KeepsNames(inodes, inodes') /\ KeepsNames(dinodes, dinodes')]_vars

\* C6 witness: a re-mounted image whose slots all hold a name.
BothSlotsNamedAfterRemount ==
    /\ Mounted
    /\ last.op = "mount"
    /\ \A i \in 0..(MAX_INODES - 1) : inodes[i].name # <<>>

\* what the allocator has to return for a bitmap
FirstFit(bm, sb, r) ==
    LET idx == sb.data_start..(sb.total_blocks - 1)
    IN  IF \E i \in idx : bm[i] = 0
        THEN /\ r \in idx
             /\ bm[r] = 0
             /\ \A j \in idx : j < r => bm[j] # 0
        ELSE r = -1

\* C7: for the bitmap in memory, and for it with any other marking of the
\* data area, get_free_block returns the lowest free index of the data
\* area, and -1 when the data area has none.
AllocatorFirstFit ==
    Mounted =>
        LET idx == super.data_start..(super.total_blocks - 1)
        IN  \A pat \in [idx -> {0, 1}] :
                LET bm == [i \in DOMAIN bitmap |->
                              IF i \in idx THEN pat[i] ELSE bitmap[i]]
                IN  FirstFit(bm, super, get_free_block(bm, super))

\* C7 witness: a write failed for want of a block with the whole data area
\* marked used.
AllocatorExhausted ==
    /\ Mounted
    /\ last.op = "write"
    /\ last.err = "NoFreeBlock"
    /\ \A i \in super.data_start..(super.total_blocks - 1) : bitmap[i] = 1
    /\ get_free_block(bitmap, super) = -1

FreshTable(tbl) == \A i \in 0..(MAX_INODES - 1) : tbl[i].name = <<>>

FreshBitmap(bm) ==
    /\ bm[0] = 1
    /\ \A i \in 1..(TOTAL_BLOCKS - 1) : bm[i] = 0

\* C8: right after the format block 0 is used, every other block is free,
\* free_blocks is total_blocks - 1 and every slot is empty, in memory and in
\* the image.
FormatState ==
    last.op = "format" =>
        /\ FreshBitmap(bitmap) /\ FreshBitmap(dbitmap)
        /\ super.free_blocks = super.total_blocks - 1
        /\ super.total_blocks = TOTAL_BLOCKS
        /\ dsuper = super
        /\ FreshTable(inodes) /\ FreshTable(dinodes)

\* C8 witness: the session right after the format.
JustFormatted == Mounted /\ img /\ last.op = "format"

InodeTableBlocks == Ceil(SizeofInode * MAX_INODES, BLOCK_SIZE)
BitmapBlocks     == Ceil(SizeofBitmap, BLOCK_SIZE)

Layout(sb) ==
    /\ sb.inode_table_start < sb.bitmap_start
    /\ sb.bitmap_start < sb.data_start
    /\ sb.data_start <= sb.total_blocks
    /\ sb.inode_table_start = 1
    /\ sb.bitmap_start = sb.inode_table_start + InodeTableBlocks
    /\ sb.data_start = sb.bitmap_start + BitmapBlocks
    /\ sb.total_blocks = TOTAL_BLOCKS
    /\ sb.block_size = BLOCK_SIZE

\* C9: from the format on, the superblock in memory and the one in the
\* image order the regions inode table < bitmap < data <= total_blocks, with
\* the region sizes rounded up to blocks, and hold the same total_blocks,
\* block_size and region starts in every state.
LayoutFixed == img => (Layout(super) /\ Layout(dsuper))

\* C9 witness: a re-mounted image on which blocks were allocated.
LayoutAfterRemount ==
    /\ Mounted
    /\ last.op = "mount"
    /\ super.free_blocks < TOTAL_BLOCKS - 1

\* the listing with the size of name replaced
WithSize(listing, name, size) ==
    [i \in 1..Len(listing) |->
        IF listing[i][1] = name THEN <<name, size>> ELSE listing[i]]

\* C10 as claimed: the listing starts empty, gains <<name, 0>> at its end
\* with every create that succeeds, takes the length of the data with every
\* write that succeeds, and changes with nothing else; list prints it and
\* changes no state.
ListFollowsHistory ==
    [][LET before == fs_list_files(inodes)
           after  == fs_list_files(inodes')
       IN  /\ IF last'.op = "create" /\ last'.ret # -1
              THEN after = Append(before, <<last'.name, 0>>)
              ELSE IF last'.op = "write" /\ last'.ret = 0
              THEN after = WithSize(before, last'.name, Len(last'.data))
              ELSE after = before
           /\ last'.op = "list" =>
                  /\ last'.files = before
                  /\ UNCHANGED <<fsvars, diskvars>>]_vars

\* the data blocks the bitmap bm marks free
FreeDataBlocks(bm, sb) ==
    {i \in sb.data_start..(sb.total_blocks - 1) : bm[i] = 0}

\* C11: from the format on, free_blocks is the number of free data blocks,
\* and it is 0 exactly when get_free_block finds no block.
FreeBlocksCountsFreeData ==
    img =>
        /\ super.free_blocks = Cardinality(FreeDataBlocks(bitmap, super))
        /\ (super.free_blocks = 0) <=> (get_free_block(bitmap, super) = -1)

\* every attached block is a data block the bitmap marks used, and no block
\* is attached at two places
BlocksConsistent(tbl, bm, sb) ==
    /\ \A p \in Attached(tbl) :
           LET b == tbl[p[1]].blocks[p[2]]
           IN  /\ b >= sb.data_start
               /\ b <= sb.total_blocks - 1
               /\ bm[b] = 1
    /\ \A p, q \in Attached(tbl) :
           tbl[p[1]].blocks[p[2]] = tbl[q[1]].blocks[q[2]] => p = q

\* C12: at every operation boundary the blocks[] entries of the named
\* inodes, in memory and in the image, are distinct data blocks that the
\* bitmap beside them marks used.
BlockReferencesValid ==
    img => /\ BlocksConsistent(inodes, bitmap, super)
           /\ BlocksConsistent(dinodes, dbitmap, dsuper)

\* C12 witness: every data block is attached, in memory and in the image,
\* and two files hold blocks.
AllDataBlocksAttached ==
    /\ Mounted
    /\ dinodes = inodes
    /\ \A b \in DataIdx : \E p \in Attached(inodes) : inodes[p[1]].blocks[p[2]] = b
    /\ \A i \in 0..(MAX_INODES - 1) : \E p \in Attached(inodes) : p[1] = i

\* a write that returned -1 after get_free_block found no block
FailedForSpace == last'.op = "write" /\ last'.err = "NoFreeBlock"

\* the failed write leaves the file's size and what read prints as they were
FailedWriteKeepsContent ==
    [][FailedForSpace =>
          LET k == fs_find_inode(inodes, last'.name)
          IN  /\ inodes'[k].size = inodes[k].size
              /\ ReadOutputs(inodes', ddata', k) = ReadOutputs(inodes, ddata, k)]_vars

\* a block attached to a named inode stays at its place and stays used
StaysAttached ==
    \A p \in Attached(inodes) :
        LET b == inodes[p[1]].blocks[p[2]]
        IN  /\ inodes'[p[1]].name = inodes[p[1]].name
            /\ inodes'[p[1]].blocks[p[2]] = b
            /\ bitmap'[b] = 1

\* C13 as claimed: the blocks a write attached before it failed for lack of
\* space (as every attached block) stay in blocks[] and used in the bitmap
\* with every later step, close and re-mount included, and the failed write
\* leaves the size and the content read returns as they were.
FailedWriteBlocksStay ==
    /\ FailedWriteKeepsContent
    /\ [][StaysAttached]_vars

\* C14: a write to a name no named slot holds fails NotFound, a write of
\* more than MAX_FILE_SIZE bytes to a file fails TooLarge, both without
\* changing anything in memory or in the image; a write of MAX_FILE_SIZE
\* bytes or less to a file fails in neither way.
WriteRejections ==
    [][last'.op = "write" =>
          LET present == fs_find_inode(inodes, last'.name) # -1
              data_len == Len(last'.data)
          IN  /\ ~present =>
                     /\ last'.ret = -1 /\ last'.err = "NotFound"
                     /\ UNCHANGED <<fsvars, diskvars>>
              /\ (present /\ data_len > FILE_BLOCKS * BLOCK_SIZE) =>
                     /\ last'.ret = -1 /\ last'.err = "TooLarge"
                     /\ UNCHANGED <<fsvars, diskvars>>
              /\ (present /\ data_len <= FILE_BLOCKS * BLOCK_SIZE) =>
                     last'.err \notin {"NotFound", "TooLarge"}]_vars

\* C14 witness: a write of MAX_FILE_SIZE + 1 bytes to a file that holds
\* data was refused.
WriteRefusedTooLarge ==
    /\ Mounted
    /\ last.op = "write" /\ last.err = "TooLarge"
    /\ Len(last.data) = FILE_BLOCKS * BLOCK_SIZE + 1
    /\ inodes[LastSlot].size > 0

\* C15 as claimed: create, write, read, list and a second close, called
\* while the session is Unopened or Closed, fail with InvalidState and
\* change nothing.
MisuseFailsInvalidState ==
    [][(/\ st \in {"Unopened", "Closed"}
        /\ st' = st
        /\ last'.op \in HandlerOps \cup {"close"}) =>
           /\ last'.err = "InvalidState"
           /\ UNCHANGED <<img, fsvars, diskvars>>]_vars

\* the positions of slot k that a step fills
NewlyAllocated(k) ==
    {i \in 0..(NBLK - 1) : inodes[k].blocks[i] = -1 /\ inodes'[k].blocks[i] # -1}

\* C16: from the format on, free_blocks never grows; a write lowers it by
\* the number of blocks[] positions it fills (which is the number of bitmap
\* entries it sets), whether it succeeds or fails, and every other
\* operation leaves it alone; the superblock of the image holds the same
\* value at every operation boundary.
FreeBlocksAccounting ==
    /\ [](img => dsuper.free_blocks = super.free_blocks)
    /\ [][img =>
            /\ super'.free_blocks <= super.free_blocks
            /\ last'.op = "write" =>
                   LET k == fs_find_inode(inodes, last'.name)
                       n == IF k = -1 THEN 0 ELSE Cardinality(NewlyAllocated(k))
                   IN  /\ super'.free_blocks = super.free_blocks - n
                       /\ n = Cardinality({b \in 0..(TOTAL_BLOCKS - 1) :
                                              bitmap[b] = 0 /\ bitmap'[b] = 1})
            /\ last'.op \in {"create", "read", "list", "close", "mount"} =>
                   super'.free_blocks = super.free_blocks]_vars

\* C16 witness: a write has failed for lack of space after it allocated.
FailedWriteAllocated ==
    /\ Mounted
    /\ last.op = "write" /\ last.err = "NoFreeBlock"
    /\ inodes # dinodes
    /\ super.free_blocks = TOTAL_BLOCKS - 1 - Cardinality(DataIdx)

\* a fs_write_file call that attached blocks returns
WriteAttachedAndReturns ==
    /\ wr.at # "idle"
    /\ wr.fresh > 0
    /\ wr'.at = "idle"
    /\ last'.op = "write"

\* C17 as claimed.  The region writes of a call come in the order its code
\* fixes, so a stop between two of them can leave the image in a state
\* exactly when the call passes a point between two region writes in that
\* state: a call that attaches blocks passes one where a block is used in
\* the image's bitmap and attached to no inode of the image, and one where
\* a block is attached to an inode of the image and not used in its bitmap.
CrashLeaksOrDangles ==
    [][WriteAttachedAndReturns => (wr.leak /\ wr.dangling)]_vars

\* C17: a stop between two region writes can leave a block used in the
\* image's bitmap and attached to no inode of the image (every call that
\* attaches a block passes such a point), and no state of the image, at
\* any region write, has a block attached to an inode and not used in the
\* bitmap.
CrashLeaksNeverDangles ==
    /\ [][WriteAttachedAndReturns => (wr.leak /\ ~wr.dangling)]_vars
    /\ [](img => ~AttachedUnused(dinodes, dbitmap))

\* C17 witness: the process stopped after the fwrite of the bitmap and
\* before the fwrite of the superblock; the re-mounted image marks a block
\* used that no inode holds.
CrashedAfterBitmapFlush ==
    /\ st = "Closed"
    /\ last.op = "crash" /\ last.err = "super"
    /\ UsedUnattached(dinodes, dbitmap)
    /\ dsuper.free_blocks = TOTAL_BLOCKS - 1

\* C18: right after the format the file is TOTAL_BLOCKS * BLOCK_SIZE bytes
\* long, the zero-fill has started at data_start * BLOCK_SIZE, and every
\* data block lies within the file at its index * BLOCK_SIZE and holds
\* zeros.
FormatFillsImage ==
    (Mounted /\ last.op = "format") =>
        /\ imglen = TOTAL_BLOCKS * BLOCK_SIZE
        /\ ZeroFillStart = super.data_start * BLOCK_SIZE
        /\ \A b \in super.data_start..(super.total_blocks - 1) :
               /\ (b + 1) * BLOCK_SIZE <= imglen
               /\ ddata[b] = ZeroBlock

\* tbl with the modified time of slot k taken from old
SaveForModified(tbl, old, k) == [tbl EXCEPT ![k].modified = old[k].modified]

\* C19: a write keeps every block the file has at its position; when the
\* file has at least ceil(L / BLOCK_SIZE) blocks the write succeeds and
\* leaves blocks[], the bitmap and the superblock as they were, in memory
\* and in the image; and the same write once more after a successful one
\* leaves the inode table (but for modified), the bitmap and the superblock
\* as they were.
RewriteInPlace ==
    [][(last'.op = "write" /\ last'.err \in {"", "NoFreeBlock"}) =>
          LET k == fs_find_inode(inodes, last'.name)
              n == Ceil(Len(last'.data), BLOCK_SIZE)
              owned == {i \in 0..(NBLK - 1) : inodes[k].blocks[i] # -1}
          IN  /\ \A i \in owned : inodes'[k].blocks[i] = inodes[k].blocks[i]
              /\ n <= Cardinality(owned) =>
                     /\ last'.ret = 0
                     /\ inodes'[k].blocks = inodes[k].blocks
                     /\ bitmap' = bitmap /\ dbitmap' = dbitmap
                     /\ super' = super /\ dsuper' = dsuper
              /\ (/\ last.op = "write" /\ last.ret = 0
                  /\ last'.name = last.name /\ last'.data = last.data) =>
                     /\ SaveForModified(inodes', inodes, k) = inodes
                     /\ SaveForModified(dinodes', dinodes, k) = dinodes
                     /\ bitmap' = bitmap /\ dbitmap' = dbitmap
                     /\ super' = super /\ dsuper' = dsuper]_vars

\* C19 witness: a one-block write to a file that holds NBLK blocks, with no
\* block left to allocate.
RewroteWithoutFreeBlocks ==
    /\ WroteOk
    /\ Len(last.data) = BLOCK_SIZE
    /\ \A i \in 0..(NBLK - 1) : inodes[LastSlot].blocks[i] # -1
    /\ get_free_block(bitmap, super) = -1

\* C20: fs_init on an image that exists mounts it: it leaves the image as
\* it is and what it has in memory afterwards is the superblock, the inode
\* table and the bitmap of the image; it formats only when there is no
\* image.
MountReadsVerbatim ==
    [][/\ last'.op = "mount" =>
              /\ img
              /\ UNCHANGED <<img, diskvars>>
              /\ super' = dsuper /\ inodes' = dinodes /\ bitmap' = dbitmap
       /\ last'.op = "format" => ~img
       /\ (img /\ st # "Mounted" /\ st' = "Mounted") => last'.op = "mount"]_vars

\* C20 witness: a re-mounted image whose bitmap marks a block used that no
\* inode holds: the block a failed write left, taken over as stored.
RemountedWithLeakedBlock ==
    /\ Mounted
    /\ last.op = "mount"
    /\ UsedUnattached(inodes, bitmap)
    /\ inodes = dinodes /\ bitmap = dbitmap /\ super = dsuper

\* The named inodes of tbl hold their blocks at a run of positions from 0
\* on, long enough for their size, and their size is within MAX_FILE_SIZE.
BlocksArePrefix(tbl) ==
    \A k \in 0..(MAX_INODES - 1) :
        tbl[k].name # <<>> =>
            LET held == {i \in 0..(NBLK - 1) : tbl[k].blocks[i] # -1}
            IN  /\ \A i \in held : \A j \in 0..i : j \in held
                /\ Cardinality(held) >= Ceil(tbl[k].size, BLOCK_SIZE)
                /\ Cardinality(held) <= FILE_BLOCKS
                /\ tbl[k].size >= 0
                /\ tbl[k].size <= FILE_BLOCKS * BLOCK_SIZE

\* The copy loop of fs_read_file reaches size bytes for every named inode of
\* tbl, so nothing of the buffer is left as malloc gave it, and every block
\* it copies from has been written: the contents handed to write hold no
\* zero byte, and a block starts with a zero byte until a write has put
\* bytes of a content there.
ReadsWhatWasWritten(tbl, dd) ==
    \A k \in 0..(MAX_INODES - 1) :
        tbl[k].name # <<>> =>
            /\ Len(ReadBlocks(0, tbl[k], dd, <<>>)) = tbl[k].size
            /\ \A i \in 0..(NBLK - 1) :
                   i < Ceil(tbl[k].size, BLOCK_SIZE) =>
                       DiskRead(dd, tbl[k].blocks[i])[1] # 0

\* C21: from the format on, in memory and in the image, the blocks of every
\* named inode are a prefix of blocks[] that covers its size, the size is
\* within MAX_FILE_SIZE, and read copies size bytes, all of them written.
PrefixCoversSize ==
    img => /\ BlocksArePrefix(inodes) /\ BlocksArePrefix(dinodes)
           /\ ReadsWhatWasWritten(inodes, ddata)
           /\ ReadsWhatWasWritten(dinodes, ddata)

\* C21 witness: read has printed a file of at most one block that holds
\* FILE_BLOCKS blocks, beside a file of size 0 that holds a block.
ReadShortFileWithSpareBlocks ==
    /\ Mounted
    /\ last.op = "read" /\ last.ret = 0 /\ last.out # <<>>
    /\ inodes[LastSlot].size <= BLOCK_SIZE
    /\ \A i \in 0..(NBLK - 1) : inodes[LastSlot].blocks[i] # -1
    /\ \E k \in 0..(MAX_INODES - 1) :
           /\ inodes[k].name # <<>>
           /\ inodes[k].size = 0
           /\ inodes[k].blocks[0] # -1

\* the (slot, position) pairs of the named inodes of tbl at the positions
\* fs_create_file of omin.c assigned: those below size / BLOCK_SIZE + 1
OminAttached(tbl) ==
    {p \in (0..(MAX_INODES - 1)) \X (0..(NBLK - 1)) :
        tbl[p[1]].name # <<>> /\ p[2] < OminNumBlocks(tbl[p[1]].size - 1)}

\* C22: in omin.c, from the format on and over close and re-mount, every
\* block create gave to a named inode is used in the bitmap and given to
\* no other place, in memory and in the image.
OminBlocksConsistent ==
    img =>
        /\ \A p \in OminAttached(inodes) : bitmap[inodes[p[1]].blocks[p[2]]] = 1
        /\ \A p, q \in OminAttached(inodes) :
               inodes[p[1]].blocks[p[2]] = inodes[q[1]].blocks[q[2]] => p = q
        /\ \A p \in OminAttached(dinodes) : dbitmap[dinodes[p[1]].blocks[p[2]]] = 1
        /\ \A p, q \in OminAttached(dinodes) :
               dinodes[p[1]].blocks[p[2]] = dinodes[q[1]].blocks[q[2]] => p = q

\* C23: in minifs_2.c, right after a write of 1 to MAX_FILE_SIZE bytes that
\* ran to its end, read can print nothing but the data written: for the
\* first write of a fresh filesystem as for a write over earlier content.
MiniRoundTrip ==
    (/\ last.op = "write" /\ last.err = ""
     /\ Len(last.data) >= 1
     /\ Len(last.data) <= FILE_BLOCKS * BLOCK_SIZE) =>
        LET k == MiniFindFrom(inodes, last.name, 0)
        IN  /\ k # -1
            /\ MiniReadOutputs(inodes, ddata, k) = {last.data}
====
